---- MODULE Spec2Model ----
(***************************************************************************)
(* ModernPortfolioManager (src/assets/js/portfolio.js) as a state machine: *)
(* the content loader with its locale fallback, the language toggle, the   *)
(* renderers' observable result and the image lightbox.                    *)
(*                                                                         *)
(* One action is one task of the browser's event loop: a DOM event handler *)
(* run to completion, or the resumption of an async function at an await   *)
(* together with everything that runs before the next await on the network *)
(* (the promise continuations of the caller included).                     *)
(***************************************************************************)
EXTENDS Integers, Sequences, FiniteSets, TLC

\* ------------------------------------------------------------------ bounds
\* Largest `projects` array of a content document.
MaxProjects == 2
\* Largest number of loadData() calls pending at the same time.
MaxLoads == 2
\* Largest vertical scroll offset of the page (in abstract units).
MaxScroll == 1
\* The count of portfolio requests of one loadData() call saturates here.
MaxRequests == 3
\* Largest image list of the navigation specification SpecNav.
MaxNavLen == 5
\* Largest `prototypes` array of a content document.
MaxPrototypes == 1
\* Largest number of drawer-link clicks whose callbacks are pending at once.
MaxTimers == 2
\* Largest number of drawer-link clicks counted by linkClicks.
MaxClicks == 2
\* Longest text value of a content document, in characters.
MaxTextLen == 2
\* Longest `contribution` list of an entry.
MaxItems == 2

\* --------------------------------------------------------------- constants
\* this.supportedLanguages
supportedLanguages == {"en", "ru"}
\* What (x % 0) and every arithmetic on it evaluates to in JavaScript.
NaN == -1
\* protos[L] of a document that has no `prototypes` field.
NoArray == -1
\* The swipe distance threshold of the touchend handler, in pixels.
SwipeThreshold == 50

Slots == 1..MaxLoads
\* How a request for a static file ends: a 2xx answer with a well-formed body,
\* a rejected fetch, a non-2xx answer, or a 2xx answer whose body is not JSON.
Modes == {"ok", "reject", "http", "badjson"}
Resources == {"en", "ru", "social"}
\* Values of the ?lang= query parameter ("null": the parameter is absent).
UrlParams == {"null", "en", "ru", "de"}
\* Values of the browser's preferred language.
BrowserLanguages == {"en", "ru", "de"}
Keys == {"Escape", "ArrowLeft", "ArrowRight", "Enter"}
Deltas ==
    {0 - (SwipeThreshold + 1), 0 - SwipeThreshold, 0, SwipeThreshold, SwipeThreshold + 1,
     SwipeThreshold + 2}

VARIABLES
    net,               \* how each static file answers a request
    docs,              \* docs[L]: length of the projects array of locale L's document
    protos,            \* protos[L]: length of the prototypes array of locale L's document
    navigatorLanguage, \* the browser's preferred language
    url,               \* the lang query parameter of the page URL
    phase,             \* progress of init(): "new", "init", "ready" or "failed"
    data,              \* this.data: "null" or the locale of the active document
    socialData,        \* this.socialData is non-null
    currentLanguage,   \* this.currentLanguage
    projectImages,     \* this.projectImages: sequence of <<locale, k>>
    currentImageIndex, \* this.currentImageIndex
    scrollPosition,    \* this.scrollPosition
    loads,             \* the loadData() calls, one record per slot
    socialRequests,    \* history: requests for data/social.json issued so far
    loading,           \* #loading-indicator has class active
    dom,               \* what the section renderers last wrote: document and label locale
    navLabels,         \* locale of the mobile drawer's labels
    modalActive,       \* #image-modal has class active
    body,              \* document.body.style: overflow and position
    pageYOffset,       \* window.pageYOffset
    offsetAtOpen,      \* history: the offset of the page when the lightbox went Open
    navStart,          \* history (SpecNav): index before the current run of nextImage()
    navCount,          \* history (SpecNav): length of the current run of nextImage()
    lastEvent,         \* history (SpecGesture): the input event handled last
    before,            \* history (SpecGesture): the lightbox when that event arrived
    content,           \* (SpecRender) a value of a content document and where it is rendered
    fragment,          \* (SpecRender) what the renderer made of it, as the browser parses it
    menuToggleActive,  \* #menu-toggle has class active
    mobileNavActive,   \* #mobile-nav has class active: the drawer is open
    navTimers,         \* callbacks of drawer-link clicks waiting for setTimeout / the next frame
    linkClicks,        \* history: drawer-link clicks whose target section exists
    linkScrolls,       \* history: scrollIntoView() calls those clicks have caused
    modalSrc,          \* #modal-image.src: the image the modal shows
    imageLoads         \* full images whose load (new Image()) has not completed yet

world    == <<net, docs, protos, navigatorLanguage>>
loader   == <<data, socialData, currentLanguage, projectImages, loads, socialRequests>>
page     == <<url, phase, loading, dom, navLabels>>
lightbox == <<currentImageIndex, scrollPosition, modalActive, body, pageYOffset, offsetAtOpen>>
navHist  == <<navStart, navCount, lastEvent, before>>
rendering == <<content, fragment>>
drawer   == <<menuToggleActive, mobileNavActive, navTimers, linkClicks, linkScrolls>>
viewer   == <<modalSrc, imageLoads>>
vars     == <<world, loader, page, lightbox, navHist, rendering, drawer, viewer>>

\* ----------------------------------------------------------------- helpers
Abs(x) == IF x < 0 THEN 0 - x ELSE x
Min(a, b) == IF a < b THEN a ELSE b

IdleLoad ==
    [st |-> "idle", file |-> "en", soc |-> FALSE, start |-> "en",
     reqs |-> 0, caller |-> "init", overlap |-> FALSE]
\* A settled call keeps its record (state "resolved" or "rejected") until a
\* later call takes its slot.
Settled(r, outcome) == [r EXCEPT !.st = outcome]
Pending(r) == r.st \in {"fetch", "json", "social"}
AnyPending == \E l \in Slots : Pending(loads[l])
FreeSlots == {l \in Slots : ~Pending(loads[l])}
FreeSlot == CHOOSE l \in FreeSlots : \A m \in FreeSlots : l <= m

NoBodyStyle == [overflow |-> "", position |-> ""]
LockedBody  == [overflow |-> "hidden", position |-> "fixed"]
\* #modal-image before any full image has been assigned to it.
NoImage == <<"null", 0>>
NoContent == [field |-> "none"]
NotRendered == [done |-> FALSE, nodes |-> <<>>, spill |-> <<>>]
NoEvent == [kind |-> "none", key |-> "", dx |-> 0, dy |-> 0]
Snapshot(active, index, style) == [modalActive |-> active, index |-> index, body |-> style]
NoDom == [doc |-> "null", lang |-> "null", prototypes |-> ""]

\* dataFile of loadData(): which locale's document is requested.
DataFile(lang) == IF lang = "ru" THEN "ru" ELSE "en"

\* The derived image list of a document: one ImageRef per project, in order.
BuildImages(d) == [k \in 1..docs[d] |-> <<d, k>>]

initializeLanguage_unchecked(langParam) == langParam
initializeLanguage_detects(langParam) ==
    IF langParam \in supportedLanguages THEN langParam
    ELSE IF navigatorLanguage \in supportedLanguages THEN navigatorLanguage
    ELSE "en"
\* initializeLanguage(): the locale resolved from the lang query parameter.
initializeLanguage(langParam) ==
    IF langParam # "null" /\ langParam \in supportedLanguages THEN langParam ELSE "en"

ShouldFallback_never(lang) == FALSE
\* The test of loadData()'s catch block: retry with the default locale.
ShouldFallback(lang) == lang = "ru"

newLanguage_sticky(lang) == IF lang = "en" THEN "ru" ELSE "de"
\* toggleLanguage(): the locale switched to.
newLanguage(lang) == IF lang = "en" THEN "ru" ELSE "en"

showLoading == TRUE
hideLoading == FALSE

renderPrototypesSection_neverShows(display, n) == IF n = 0 THEN "none" ELSE display
\* renderPrototypesSection(): style.display of the #prototypes section after
\* rendering a prototypes array of length n. With no array in the document the
\* renderer returns before it touches the section.
renderPrototypesSection(display, n) ==
    IF n = NoArray THEN display
    ELSE IF n = 0 THEN "none"
    ELSE ""

\* renderAllSections(): every section is rendered from this.data, the section
\* titles from the bilingual table by this.currentLanguage === 'ru'.
renderAllSections(d, lang) ==
    [doc |-> d, lang |-> DataFile(lang),
     prototypes |-> renderPrototypesSection(dom.prototypes, protos[d])]
\* updateMobileNavLabels(): labels[lang] || labels.en
updateMobileNavLabels(lang) == IF lang \in {"en", "ru"} THEN lang ELSE "en"

\* previousImage(): (i - 1 + n) % n
PrevIndex(i, n) == IF i = NaN \/ n = 0 THEN NaN ELSE (i - 1 + n) % n
NextIndex_noWrap(i, n) == IF i = NaN \/ n = 0 THEN NaN ELSE i + 1
\* nextImage(): (i + 1) % n
NextIndex(i, n) == IF i = NaN \/ n = 0 THEN NaN ELSE (i + 1) % n

\* -------------------------------------------------------------------- Init
\* The fields as the constructor sets them, and the page as served.
Constructed ==
    /\ phase = "new"
    /\ data = "null"
    /\ socialData = FALSE
    /\ currentLanguage = "en"
    /\ projectImages = <<>>
    /\ currentImageIndex = 0
    /\ scrollPosition = 0
    /\ loads = [l \in Slots |-> IdleLoad]
    /\ socialRequests = 0
    /\ loading = FALSE
    /\ dom = NoDom
    /\ navLabels = "null"
    /\ modalActive = FALSE
    /\ body = NoBodyStyle
    /\ pageYOffset = 0
    /\ offsetAtOpen = 0
    /\ navStart = 0
    /\ navCount = 0
    /\ lastEvent = NoEvent
    /\ before = Snapshot(FALSE, 0, NoBodyStyle)
    /\ fragment = NotRendered
    /\ menuToggleActive = FALSE
    /\ mobileNavActive = FALSE
    /\ navTimers = <<>>
    /\ linkClicks = 0
    /\ linkScrolls = 0
    /\ modalSrc = NoImage
    /\ imageLoads = {}

\* The page before DOMContentLoaded, with the field values of the constructor.
Init ==
    /\ net \in [Resources -> Modes]
    /\ docs \in [supportedLanguages -> 0..MaxProjects]
    /\ protos = [L \in supportedLanguages |-> 1]
    /\ navigatorLanguage = "en"
    /\ url \in UrlParams
    /\ Constructed
    /\ content = NoContent

\* ------------------------------------------------------------ content loader
\* The second element of loadData()'s Promise.all: data/social.json is fetched
\* unless this.socialData is set. The count saturates at MaxRequests.
RequestSocial ==
    IF socialData THEN socialRequests ELSE Min(socialRequests + 1, MaxRequests)

StartLoad_alwaysSocial(lang, who) ==
    /\ loads' = [m \in Slots |->
                   IF m = FreeSlot
                   THEN [st |-> "fetch", file |-> DataFile(lang), soc |-> TRUE,
                         start |-> lang, reqs |-> 1, caller |-> who, overlap |-> AnyPending]
                   ELSE IF Pending(loads[m]) THEN [loads[m] EXCEPT !.overlap = TRUE]
                   ELSE loads[m]]
    /\ socialRequests' = Min(socialRequests + 1, MaxRequests)
\* loadData() up to its first await: the requests are issued.
StartLoad(lang, who) ==
    /\ loads' = [m \in Slots |->
                   IF m = FreeSlot
                   THEN [st |-> "fetch", file |-> DataFile(lang), soc |-> ~socialData,
                         start |-> lang, reqs |-> 1, caller |-> who, overlap |-> AnyPending]
                   ELSE IF Pending(loads[m]) THEN [loads[m] EXCEPT !.overlap = TRUE]
                   ELSE loads[m]]
    /\ socialRequests' = RequestSocial

initResume_keepsIndicator(ok) ==
    IF ok
    THEN /\ dom' = renderAllSections(data', currentLanguage')
         /\ navLabels' = updateMobileNavLabels(currentLanguage')
         /\ phase' = "ready"
         /\ loading' = hideLoading
    ELSE /\ phase' = "failed"
         /\ UNCHANGED <<dom, navLabels, loading>>
\* init() after `await this.loadData()`: initializeUI() and hideLoading(), or
\* the catch block.
initResume(ok) ==
    IF ok
    THEN /\ dom' = renderAllSections(data', currentLanguage')
         /\ navLabels' = updateMobileNavLabels(currentLanguage')
         /\ phase' = "ready"
         /\ loading' = hideLoading
    ELSE /\ phase' = "failed"
         /\ loading' = hideLoading
         /\ UNCHANGED <<dom, navLabels>>

toggleResume_noRender(ok) ==
    /\ loading' = hideLoading
    /\ UNCHANGED <<dom, navLabels, phase>>
\* toggleLanguage() after `await this.loadData()`.
toggleResume(ok) ==
    IF ok
    THEN /\ dom' = renderAllSections(data', currentLanguage')
         /\ navLabels' = updateMobileNavLabels(currentLanguage')
         /\ loading' = hideLoading
         /\ UNCHANGED phase
    ELSE /\ loading' = hideLoading
         /\ UNCHANGED <<dom, navLabels, phase>>

Resume(l, ok) ==
    IF loads[l].caller = "init" THEN initResume(ok) ELSE toggleResume(ok)

\* The catch block of loadData(). The recursive call runs up to its first await.
loadDataCatch(l) ==
    IF ShouldFallback(currentLanguage)
    THEN /\ currentLanguage' = "en"
         /\ loads' = [loads EXCEPT ![l] =
                        [@ EXCEPT !.st = "fetch", !.file = DataFile("en"),
                                  !.soc = ~socialData,
                                  !.reqs = Min(@ + 1, MaxRequests)]]
         /\ socialRequests' = RequestSocial
         /\ UNCHANGED <<projectImages, dom, navLabels, loading, phase>>
    ELSE /\ loads' = [loads EXCEPT ![l] = Settled(@, "rejected")]
         /\ UNCHANGED <<currentLanguage, projectImages, socialRequests>>
         /\ Resume(l, FALSE)

\* The end of loadData()'s try block: the image list is rebuilt from this.data
\* and the call resolves.
loadDataFinish(l) ==
    /\ projectImages' = BuildImages(data')
    /\ loads' = [loads EXCEPT ![l] = Settled(@, "resolved")]
    /\ UNCHANGED <<currentLanguage, socialRequests>>
    /\ Resume(l, TRUE)

FetchSettled_ignoresSocialReject(l) ==
    /\ loads[l].st = "fetch"
    /\ IF net[loads[l].file] \in {"reject", "http"}
       THEN loadDataCatch(l)
       ELSE /\ loads' = [loads EXCEPT ![l].st = "json"]
            /\ UNCHANGED <<currentLanguage, projectImages, socialRequests,
                           dom, navLabels, loading, phase>>
    /\ UNCHANGED <<data, socialData, world, url, lightbox, navHist, rendering, drawer, viewer>>
\* Promise.all of the two fetches settles; then the response.ok test.
FetchSettled(l) ==
    /\ loads[l].st = "fetch"
    /\ LET r == loads[l]
           rejected == net[r.file] = "reject" \/ (r.soc /\ net["social"] = "reject")
       IN  IF rejected \/ net[r.file] = "http"
           THEN loadDataCatch(l)
           ELSE /\ loads' = [loads EXCEPT ![l].st = "json"]
                /\ UNCHANGED <<currentLanguage, projectImages, socialRequests,
                               dom, navLabels, loading, phase>>
    /\ UNCHANGED <<data, socialData, world, url, lightbox, navHist, rendering, drawer, viewer>>

\* portfolioResponse.json() settles.
PortfolioParsed(l) ==
    /\ loads[l].st = "json"
    /\ LET r == loads[l]
       IN  IF net[r.file] = "badjson"
           THEN UNCHANGED data /\ loadDataCatch(l)
           ELSE /\ data' = r.file
                /\ IF r.soc /\ net["social"] \in {"ok", "badjson"}
                   THEN /\ loads' = [loads EXCEPT ![l].st = "social"]
                        /\ UNCHANGED <<currentLanguage, projectImages, socialRequests,
                                       dom, navLabels, loading, phase>>
                   ELSE loadDataFinish(l)
    /\ UNCHANGED <<socialData, world, url, lightbox, navHist, rendering, drawer, viewer>>

\* socialResponse.json() settles.
SocialParsed(l) ==
    /\ loads[l].st = "social"
    /\ UNCHANGED data
    /\ IF net["social"] = "badjson"
       THEN UNCHANGED socialData /\ loadDataCatch(l)
       ELSE socialData' = TRUE /\ loadDataFinish(l)
    /\ UNCHANGED <<world, url, lightbox, navHist, rendering, drawer, viewer>>

\* DOMContentLoaded: the constructor and init() up to `await this.loadData()`.
DOMContentLoaded ==
    /\ phase = "new"
    /\ phase' = "init"
    /\ loading' = showLoading
    /\ currentLanguage' = initializeLanguage(url)
    /\ StartLoad(currentLanguage', "init")
    /\ UNCHANGED <<data, socialData, projectImages, url, dom, navLabels,
                   world, lightbox, navHist, rendering, drawer, viewer>>

\* Click on #language-toggle: toggleLanguage() up to `await this.loadData()`.
toggleLanguage ==
    /\ phase = "ready"
    /\ FreeSlots # {}
    /\ loading' = showLoading
    /\ url' = newLanguage(currentLanguage)
    /\ currentLanguage' = newLanguage(currentLanguage)
    /\ StartLoad(currentLanguage', "toggle")
    /\ UNCHANGED <<data, socialData, projectImages, phase, dom, navLabels,
                   world, lightbox, navHist, rendering, drawer, viewer>>

\* ------------------------------------------------------------------ lightbox
\* openImageModal(index). With no image at the index, reading image.full throws
\* after the index has been stored. A body with position: fixed leaves the
\* document nothing to scroll, so the window reports offset 0 from then on (the
\* page is shown shifted by body.style.top instead).
openImageModal(index) ==
    /\ currentImageIndex' = index
    /\ IF index \in 0..(Len(projectImages) - 1)
       THEN /\ modalActive' = TRUE
            /\ scrollPosition' = pageYOffset
            /\ body' = LockedBody
            /\ pageYOffset' = 0
            /\ offsetAtOpen' = IF modalActive THEN offsetAtOpen ELSE pageYOffset
       ELSE UNCHANGED <<modalActive, scrollPosition, body, pageYOffset, offsetAtOpen>>

\* closeImageModal()
closeImageModal ==
    /\ modalActive' = FALSE
    /\ body' = NoBodyStyle
    /\ pageYOffset' = scrollPosition
    /\ offsetAtOpen' = 0
    /\ UNCHANGED <<currentImageIndex, scrollPosition>>

\* previousImage()
previousImage ==
    /\ currentImageIndex' = PrevIndex(currentImageIndex, Len(projectImages))
    /\ UNCHANGED <<scrollPosition, modalActive, body, pageYOffset, offsetAtOpen>>

\* nextImage()
nextImage ==
    /\ currentImageIndex' = NextIndex(currentImageIndex, Len(projectImages))
    /\ UNCHANGED <<scrollPosition, modalActive, body, pageYOffset, offsetAtOpen>>

\* Click on a rendered .project-image: its data-index is its place in the
\* projects array that renderProjectsSection() rendered. The listener is on the
\* document and does not look at the state of the modal.
ClickProjectImage ==
    /\ phase = "ready"
    /\ \E index \in 0..(docs[dom.doc] - 1) : openImageModal(index)
    /\ UNCHANGED <<world, loader, page, navHist, rendering, drawer, viewer>>

\* Clicks on the controls of the modal, which are on screen while it is active.
ModalOverlayClick ==
    /\ phase = "ready" /\ modalActive
    /\ closeImageModal
    /\ UNCHANGED <<world, loader, page, navHist, rendering, drawer, viewer>>

ModalCloseClick ==
    /\ phase = "ready" /\ modalActive
    /\ closeImageModal
    /\ UNCHANGED <<world, loader, page, navHist, rendering, drawer, viewer>>

ModalPrevClick ==
    /\ phase = "ready" /\ modalActive
    /\ previousImage
    /\ UNCHANGED <<world, loader, page, navHist, rendering, drawer, viewer>>

ModalNextClick ==
    /\ phase = "ready" /\ modalActive
    /\ nextImage
    /\ UNCHANGED <<world, loader, page, navHist, rendering, drawer, viewer>>

keydownHandler_noGuard(key) ==
    IF key = "Escape" THEN closeImageModal
    ELSE IF key = "ArrowLeft" THEN previousImage
    ELSE IF key = "ArrowRight" THEN nextImage
    ELSE UNCHANGED lightbox
\* The keydown listener of initializeImageModal().
keydownHandler(key) ==
    IF modalActive /\ key = "Escape" THEN closeImageModal
    ELSE IF modalActive /\ key = "ArrowLeft" THEN previousImage
    ELSE IF modalActive /\ key = "ArrowRight" THEN nextImage
    ELSE UNCHANGED lightbox

touchendHandler_inclusive(dx, dy) ==
    IF ~modalActive THEN UNCHANGED lightbox
    ELSE IF Abs(dx) >= Abs(dy) /\ Abs(dx) >= SwipeThreshold
    THEN IF dx > 0 THEN previousImage ELSE nextImage
    ELSE UNCHANGED lightbox
\* The touchstart and touchend listeners on a gesture that moved by (dx, dy).
touchendHandler(dx, dy) ==
    IF ~modalActive THEN UNCHANGED lightbox
    ELSE IF Abs(dx) > Abs(dy) /\ Abs(dx) > SwipeThreshold
    THEN IF dx > 0 THEN previousImage ELSE nextImage
    ELSE UNCHANGED lightbox

\* closeMobileNav() that leaves body.style.overflow as it was.
closeMobileNav_keepsLock ==
    /\ menuToggleActive' = FALSE
    /\ mobileNavActive' = FALSE
    /\ UNCHANGED body

\* closeMobileNav().
closeMobileNav ==
    /\ menuToggleActive' = FALSE
    /\ mobileNavActive' = FALSE
    /\ body' = [body EXCEPT !.overflow = ""]

\* A keydown event runs the listener of initializeImageModal() and then the one
\* of initializeMobileNav(), which closes an open drawer on Escape. Both write
\* body.style.overflow = '' when they close something.
keydown(key) ==
    IF ~(key = "Escape" /\ mobileNavActive)
    THEN keydownHandler(key) /\ UNCHANGED drawer
    ELSE IF modalActive
    THEN /\ closeImageModal
         /\ menuToggleActive' = FALSE
         /\ mobileNavActive' = FALSE
         /\ UNCHANGED <<navTimers, linkClicks, linkScrolls>>
    ELSE /\ closeMobileNav
         /\ UNCHANGED <<navTimers, linkClicks, linkScrolls>>
         /\ UNCHANGED <<currentImageIndex, scrollPosition, modalActive, pageYOffset,
                        offsetAtOpen>>

\* A key is pressed on the page that init() has set up.
KeyDown ==
    /\ phase = "ready"
    /\ \E key \in Keys : keydown(key)
    /\ UNCHANGED <<world, loader, page, navHist, rendering, viewer>>

\* A touch gesture ends while the modal is active (with the modal not active
\* the touchend listener returns at once).
TouchEnd ==
    /\ modalActive
    /\ \E dx \in Deltas, dy \in Deltas : touchendHandler(dx, dy)
    /\ UNCHANGED <<world, loader, page, navHist, rendering, drawer, viewer>>

\* The user scrolls the rendered page (a fixed body cannot be scrolled).
Scroll ==
    /\ phase = "ready"
    /\ body.position # "fixed"
    /\ \E y \in 0..MaxScroll : y # pageYOffset /\ pageYOffset' = y
    /\ UNCHANGED <<currentImageIndex, scrollPosition, modalActive, body, offsetAtOpen>>
    /\ UNCHANGED <<world, loader, page, navHist, rendering, drawer, viewer>>

\* ---------------------------------------------------------- specifications
\* The whole page: loader, language toggle, lightbox and scrolling.
Next ==
    \/ DOMContentLoaded
    \/ \E l \in Slots : FetchSettled(l)
    \/ \E l \in Slots : PortfolioParsed(l)
    \/ \E l \in Slots : SocialParsed(l)
    \/ toggleLanguage
    \/ ClickProjectImage
    \/ ModalOverlayClick
    \/ ModalCloseClick
    \/ ModalPrevClick
    \/ ModalNextClick
    \/ KeyDown
    \/ TouchEnd
    \/ Scroll

Spec == Init /\ [][Next]_vars

\* The loader and the language toggle alone. The lightbox and the scroll offset
\* are neither read nor written by them.
NextLoad ==
    \/ DOMContentLoaded
    \/ \E l \in Slots : FetchSettled(l)
    \/ \E l \in Slots : PortfolioParsed(l)
    \/ \E l \in Slots : SocialParsed(l)
    \/ toggleLanguage

SpecLoad == Init /\ [][NextLoad]_vars

\* The lightbox and the scroll offset on the page as init() rendered it.
NextLightbox ==
    \/ DOMContentLoaded
    \/ \E l \in Slots : FetchSettled(l)
    \/ \E l \in Slots : PortfolioParsed(l)
    \/ \E l \in Slots : SocialParsed(l)
    \/ ClickProjectImage
    \/ ModalOverlayClick
    \/ ModalCloseClick
    \/ ModalPrevClick
    \/ ModalNextClick
    \/ KeyDown
    \/ TouchEnd
    \/ Scroll

SpecLightbox == Init /\ [][NextLightbox]_vars

\* The loader and the language toggle on a site whose default document is served,
\* for every browser language and every pair of prototypes arrays.
InitPage ==
    /\ net \in {f \in [Resources -> Modes] : f["en"] = "ok" /\ f["social"] \in {"ok", "http"}}
    /\ docs = [L \in supportedLanguages |-> 1]
    /\ protos \in [supportedLanguages -> {NoArray} \cup 0..MaxPrototypes]
    /\ navigatorLanguage \in BrowserLanguages
    /\ url \in UrlParams
    /\ Constructed
    /\ content = NoContent

SpecPage == InitPage /\ [][NextLoad]_vars

\* Navigation alone, on a lightbox that init() and a click have opened on a
\* list of n images: previousImage() and nextImage() in any order. navStart and
\* navCount follow the current run of consecutive nextImage() calls.
InitNav ==
    /\ net = [r \in Resources |-> "ok"]
    /\ \E n \in 1..MaxNavLen : docs = [L \in supportedLanguages |-> n]
    /\ protos = [L \in supportedLanguages |-> 1]
    /\ navigatorLanguage = "en"
    /\ url \in {"en", "ru"}
    /\ phase = "ready"
    /\ data = url
    /\ socialData = TRUE
    /\ currentLanguage = url
    /\ projectImages = BuildImages(url)
    /\ currentImageIndex \in 0..(docs[url] - 1)
    /\ scrollPosition = 0
    /\ loads = [l \in Slots |->
                  IF l = 1
                  THEN [st |-> "resolved", file |-> url, soc |-> TRUE, start |-> url,
                        reqs |-> 1, caller |-> "init", overlap |-> FALSE]
                  ELSE IdleLoad]
    /\ socialRequests = 1
    /\ loading = FALSE
    /\ dom = [doc |-> url, lang |-> url, prototypes |-> ""]
    /\ navLabels = updateMobileNavLabels(url)
    /\ modalActive = TRUE
    /\ body = LockedBody
    /\ pageYOffset = 0
    /\ offsetAtOpen = 0
    /\ navStart = currentImageIndex
    /\ navCount = 0
    /\ lastEvent = NoEvent
    /\ before = Snapshot(FALSE, 0, NoBodyStyle)
    /\ content = NoContent
    /\ fragment = NotRendered
    /\ menuToggleActive = FALSE
    /\ mobileNavActive = FALSE
    /\ navTimers = <<>>
    /\ linkClicks = 0
    /\ linkScrolls = 0
    /\ modalSrc = NoImage
    /\ imageLoads = {}

NavPrevious ==
    /\ modalActive
    /\ previousImage
    /\ navStart' = currentImageIndex'
    /\ navCount' = 0
    /\ UNCHANGED <<world, loader, page, lastEvent, before, rendering, drawer, viewer>>

NavNext ==
    /\ modalActive
    /\ nextImage
    /\ navStart' = IF navCount = Len(projectImages) THEN currentImageIndex ELSE navStart
    /\ navCount' = IF navCount = Len(projectImages) THEN 1 ELSE navCount + 1
    /\ UNCHANGED <<world, loader, page, lastEvent, before, rendering, drawer, viewer>>

NextNav == NavPrevious \/ NavNext

SpecNav == InitNav /\ [][NextNav]_vars

\* Input events on the page that init() has rendered from a list of n images,
\* the lightbox Closed at first. lastEvent and before record each event and the
\* lightbox it found.
InitGesture ==
    /\ net = [r \in Resources |-> "ok"]
    /\ \E n \in 1..MaxNavLen : docs = [L \in supportedLanguages |-> n]
    /\ protos = [L \in supportedLanguages |-> 1]
    /\ navigatorLanguage = "en"
    /\ url = "en"
    /\ phase = "ready"
    /\ data = "en"
    /\ socialData = TRUE
    /\ currentLanguage = "en"
    /\ projectImages = BuildImages("en")
    /\ currentImageIndex = 0
    /\ scrollPosition = 0
    /\ loads = [l \in Slots |->
                  IF l = 1
                  THEN [st |-> "resolved", file |-> "en", soc |-> TRUE, start |-> "en",
                        reqs |-> 1, caller |-> "init", overlap |-> FALSE]
                  ELSE IdleLoad]
    /\ socialRequests = 1
    /\ loading = FALSE
    /\ dom = [doc |-> "en", lang |-> "en", prototypes |-> ""]
    /\ navLabels = updateMobileNavLabels("en")
    /\ modalActive = FALSE
    /\ body = NoBodyStyle
    /\ pageYOffset = 0
    /\ offsetAtOpen = 0
    /\ navStart = 0
    /\ navCount = 0
    /\ lastEvent = NoEvent
    /\ before = Snapshot(FALSE, 0, NoBodyStyle)
    /\ content = NoContent
    /\ fragment = NotRendered
    /\ menuToggleActive = FALSE
    /\ mobileNavActive = FALSE
    /\ navTimers = <<>>
    /\ linkClicks = 0
    /\ linkScrolls = 0
    /\ modalSrc = NoImage
    /\ imageLoads = {}

Recorded(event) ==
    /\ lastEvent' = event
    /\ before' = Snapshot(modalActive, currentImageIndex, body)
    /\ UNCHANGED <<world, loader, page, navStart, navCount, rendering, drawer, viewer>>

GestureClick ==
    /\ \E index \in 0..(docs[dom.doc] - 1) : openImageModal(index)
    /\ Recorded([kind |-> "click", key |-> "", dx |-> 0, dy |-> 0])

GestureKey ==
    \E key \in Keys :
        /\ keydownHandler(key)
        /\ Recorded([kind |-> "key", key |-> key, dx |-> 0, dy |-> 0])

GestureTouch ==
    \E dx \in Deltas, dy \in Deltas :
        /\ touchendHandler(dx, dy)
        /\ Recorded([kind |-> "touch", key |-> "", dx |-> dx, dy |-> dy])

NextGesture == GestureClick \/ GestureKey \/ GestureTouch

SpecGesture == InitGesture /\ [][NextGesture]_vars

\* -------------------------------------------------------------- mobile drawer
\* The target of a drawer link: a section at offset top, or no such element.
Links ==
    {[exists |-> TRUE, top |-> y] : y \in 0..MaxScroll} \cup {[exists |-> FALSE, top |-> 0]}

\* targetSection.scrollIntoView(): a body with position: fixed does not scroll.
scrollIntoView(link) ==
    pageYOffset' = IF body'.position = "fixed" THEN pageYOffset ELSE link.top

lightboxButBody == <<currentImageIndex, scrollPosition, modalActive, pageYOffset, offsetAtOpen>>

\* Click on #menu-toggle.
MenuToggleClick ==
    /\ phase = "ready"
    /\ menuToggleActive' = ~menuToggleActive
    /\ mobileNavActive' = ~mobileNavActive
    /\ body' = [body EXCEPT !.overflow = IF mobileNavActive' THEN "hidden" ELSE ""]
    /\ UNCHANGED <<navTimers, linkClicks, linkScrolls, lightboxButBody>>
    /\ UNCHANGED <<world, loader, page, navHist, rendering, viewer>>

\* Click on #mobile-nav-overlay, which is on screen while the drawer is open.
NavOverlayClick ==
    /\ phase = "ready" /\ mobileNavActive
    /\ closeMobileNav
    /\ UNCHANGED <<navTimers, linkClicks, linkScrolls, lightboxButBody>>
    /\ UNCHANGED << world, loader, page, navHist, rendering, viewer>>

\* Click on #mobile-nav-close.
NavCloseClick ==
    /\ phase = "ready" /\ mobileNavActive
    /\ closeMobileNav
    /\ UNCHANGED <<navTimers, linkClicks, linkScrolls, lightboxButBody>>
    /\ UNCHANGED << world, loader, page, navHist, rendering, viewer>>

\* Click on a .mobile-nav-link of the open drawer. The link's own listener
\* closes the drawer and starts the timer. The click then bubbles to the
\* document, where the listener for internal links of initializeEventListeners()
\* scrolls to the target at once when the event target is the <a> element
\* itself (onAnchor) and not an element inside it.
NavLinkClick ==
    /\ phase = "ready" /\ mobileNavActive
    /\ Len(navTimers) < MaxTimers /\ linkClicks < MaxClicks
    /\ \E link \in Links, onAnchor \in BOOLEAN :
         /\ closeMobileNav
         /\ navTimers' = Append(navTimers, [stage |-> "timeout", link |-> link])
         /\ linkClicks' = IF link.exists THEN linkClicks + 1 ELSE linkClicks
         /\ IF onAnchor /\ link.exists
            THEN scrollIntoView(link) /\ linkScrolls' = linkScrolls + 1
            ELSE UNCHANGED <<pageYOffset, linkScrolls>>
    /\ UNCHANGED <<currentImageIndex, scrollPosition, modalActive, offsetAtOpen>>
    /\ UNCHANGED <<world, loader, page, navHist, rendering, viewer>>

\* The 350 ms timer of the oldest waiting click fires: requestAnimationFrame().
NavTimeout ==
    /\ \E i \in 1..Len(navTimers) :
         /\ navTimers[i].stage = "timeout"
         /\ \A j \in 1..(i - 1) : navTimers[j].stage = "frame"
         /\ navTimers' = [navTimers EXCEPT ![i].stage = "frame"]
    /\ UNCHANGED <<menuToggleActive, mobileNavActive, linkClicks, linkScrolls>>
    /\ UNCHANGED <<world, loader, page, lightbox, navHist, rendering, viewer>>

\* The animation frame callback of the oldest click runs: scrollIntoView().
NavFrame ==
    /\ navTimers # <<>> /\ Head(navTimers).stage = "frame"
    /\ navTimers' = Tail(navTimers)
    /\ UNCHANGED body
    /\ IF Head(navTimers).link.exists
       THEN scrollIntoView(Head(navTimers).link) /\ linkScrolls' = linkScrolls + 1
       ELSE UNCHANGED <<pageYOffset, linkScrolls>>
    /\ UNCHANGED <<menuToggleActive, mobileNavActive, linkClicks>>
    /\ UNCHANGED <<currentImageIndex, scrollPosition, modalActive, offsetAtOpen>>
    /\ UNCHANGED <<world, loader, page, navHist, rendering, viewer>>

\* Drawer events alone, the lightbox staying Closed, on the page init() rendered.
NextDrawer ==
    \/ MenuToggleClick
    \/ NavOverlayClick
    \/ NavCloseClick
    \/ NavLinkClick
    \/ NavTimeout
    \/ NavFrame
    \/ KeyDown

SpecDrawer == InitGesture /\ [][NextDrawer]_vars

\* Drawer events interleaved with the lightbox.
NextShell ==
    \/ NextDrawer
    \/ ClickProjectImage
    \/ ModalCloseClick

SpecShell == InitGesture /\ [][NextShell]_vars

\* ------------------------------------------------------------- image loading
\* `const img = new Image(); img.onload = ...; img.src = image.full`: the load
\* of the image at the index is started; its onload callback runs later.
loadImage(index) ==
    /\ imageLoads' = imageLoads \cup {projectImages[index + 1]}
    /\ UNCHANGED modalSrc

\* updateModalImage(), called by previousImage() and nextImage() after they
\* have moved currentImageIndex.
updateModalImage == loadImage(currentImageIndex')

\* Click on a project image of the page, the modal not being in front of it:
\* openImageModal(index) with its image load.
ImageOpen ==
    /\ ~modalActive
    /\ \E index \in 0..(docs[dom.doc] - 1) : openImageModal(index) /\ loadImage(index)
    /\ UNCHANGED <<world, loader, page, navHist, rendering, drawer>>

\* Click on the modal's previous button.
ImagePrevious ==
    /\ modalActive
    /\ previousImage /\ updateModalImage
    /\ UNCHANGED <<world, loader, page, navHist, rendering, drawer>>

\* Click on the modal's next button.
ImageNext ==
    /\ modalActive
    /\ nextImage /\ updateModalImage
    /\ UNCHANGED <<world, loader, page, navHist, rendering, drawer>>

\* Click on the modal's close button; image loads in flight stay in flight.
ImageClose ==
    /\ modalActive
    /\ closeImageModal
    /\ UNCHANGED <<world, loader, page, navHist, rendering, drawer, viewer>>

\* img.onload of any one of the loads in flight: the browser completes them in
\* whatever order the responses arrive.
ImageLoaded ==
    /\ \E ref \in imageLoads :
         /\ modalSrc' = ref
         /\ imageLoads' = imageLoads \ {ref}
    /\ UNCHANGED <<world, loader, page, lightbox, navHist, rendering, drawer>>

NextImages ==
    \/ ImageOpen
    \/ ImagePrevious
    \/ ImageNext
    \/ ImageClose
    \/ ImageLoaded

SpecImages == InitGesture /\ [][NextImages]_vars

\* ---------------------------------------------------------------- renderers
\* Characters of the text values: a letter and the characters HTML gives a meaning.
TextChars == {"a", "<", ">", "&", "\"", "\n"}
Letters == {"a", "b", "g", "l", "m", "p", "r", "t"}
TextValues == UNION {[1..k -> TextChars] : k \in 0..MaxTextLen}
\* Where a renderer puts a text value: assigned to textContent (hero, about
\* title), interpolated into a template literal as element content (titles,
\* genres, tags, descriptions, contributions, link texts, names), interpolated
\* inside a double-quoted attribute (alt, href), or about.content.
Sinks == {"textContent", "innerHTML", "attribute", "about"}

TextNode(c) == [type |-> "text", text |-> c, name |-> <<>>]
Element(tag) == [type |-> "element", text |-> "", name |-> tag]
\* The DOM of a string shown as literal text: its characters, nothing else.
TextNodes(v) == [i \in 1..Len(v) |-> TextNode(v[i])]

\* String.prototype.replace(/c/g, r)
RECURSIVE Replace(_, _, _)
Replace(v, c, r) ==
    IF v = <<>> THEN <<>>
    ELSE (IF Head(v) = c THEN r ELSE <<Head(v)>>) \o Replace(Tail(v), c, r)

\* renderAboutSection(): formattedContent
formattedContent(v) ==
    Replace(Replace(Replace(Replace(v, "&", <<"&", "a", "m", "p", ";">>),
                            "<", <<"&", "l", "t", ";">>),
                    ">", <<"&", "g", "t", ";">>),
            "\n", <<"<", "b", "r", ">">>)

HasPrefix(v, pre) == Len(v) >= Len(pre) /\ SubSeq(v, 1, Len(pre)) = pre
Drop(v, k) == SubSeq(v, k + 1, Len(v))
\* Index of the first c in v, Len(v) + 1 when there is none.
IndexOf(v, c) ==
    IF \E i \in 1..Len(v) : v[i] = c
    THEN CHOOSE i \in 1..Len(v) : v[i] = c /\ \A j \in 1..(i - 1) : v[j] # c
    ELSE Len(v) + 1

\* element.innerHTML = v, as the HTML parser reads element content: '<' before a
\* letter opens a tag that runs to the next '>', the three character references
\* decode to their character, every other character is text.
RECURSIVE ParseHtml(_)
ParseHtml(v) ==
    IF v = <<>> THEN <<>>
    ELSE IF Head(v) = "<" /\ Len(v) >= 2 /\ v[2] \in Letters
    THEN LET close == IndexOf(v, ">")
         IN  <<Element(SubSeq(v, 2, close - 1))>> \o ParseHtml(Drop(v, Min(close, Len(v))))
    ELSE IF HasPrefix(v, <<"&", "a", "m", "p", ";">>)
    THEN <<TextNode("&")>> \o ParseHtml(Drop(v, 5))
    ELSE IF HasPrefix(v, <<"&", "l", "t", ";">>)
    THEN <<TextNode("<")>> \o ParseHtml(Drop(v, 4))
    ELSE IF HasPrefix(v, <<"&", "g", "t", ";">>)
    THEN <<TextNode(">")>> \o ParseHtml(Drop(v, 4))
    ELSE <<TextNode(Head(v))>> \o ParseHtml(Tail(v))

\* What a renderer makes of text value v at a sink: the nodes (or the attribute
\* value) the browser ends up with, and for an attribute the characters after
\* the quote that closed it early.
RenderText(sink, v) ==
    IF sink = "textContent"
    THEN [done |-> TRUE, nodes |-> TextNodes(v), spill |-> <<>>]
    ELSE IF sink = "innerHTML"
    THEN [done |-> TRUE, nodes |-> ParseHtml(v), spill |-> <<>>]
    ELSE IF sink = "attribute"
    THEN LET quote == IndexOf(v, "\"")
         IN  [done |-> TRUE, nodes |-> TextNodes(SubSeq(v, 1, quote - 1)),
              spill |-> Drop(v, Min(quote, Len(v)))]
    ELSE [done |-> TRUE, nodes |-> ParseHtml(formattedContent(v)), spill |-> <<>>]

\* The contribution field of an entry: omitted, a string or a list of strings.
Texts == {"", "x", "y"}
Omitted == [kind |-> "omitted", text |-> "", items |-> <<>>]
Contributions ==
    {Omitted}
      \cup {[kind |-> "string", text |-> t, items |-> <<>>] : t \in Texts}
      \cup {[kind |-> "list", text |-> "", items |-> xs] :
               xs \in UNION {[1..k -> Texts] : k \in 0..MaxItems}}
Entries == {"project", "jam", "prototype"}

ContributionBlock_truthyOnly(entry, c) ==
    IF c.kind = "omitted" \/ (c.kind = "string" /\ c.text = "")
    THEN <<>>
    ELSE <<[class |-> entry,
            body |-> IF c.kind = "list"
                     THEN [el |-> "ul", text |-> "", items |-> c.items]
                     ELSE [el |-> "p", text |-> c.text, items |-> <<>>]]>>
\* The contribution block of renderProjectsSection(), renderJamsSection() and
\* renderPrototypesSection(): nothing, a paragraph, or a list with one item per
\* element.
ContributionBlock(entry, c) ==
    LET truthy == c.kind = "list" \/ (c.kind = "string" /\ c.text # "")
        shown == truthy /\ (IF c.kind = "list" THEN Len(c.items) > 0 ELSE c.text # "")
    IN  IF ~shown
        THEN <<>>
        ELSE <<[class |-> entry,
                body |-> IF c.kind = "list"
                         THEN [el |-> "ul", text |-> "", items |-> c.items]
                         ELSE [el |-> "p", text |-> c.text, items |-> <<>>]]>>

\* One value of a content document, and the renderer applied to it.
InitRender ==
    /\ net = [r \in Resources |-> "ok"]
    /\ docs = [L \in supportedLanguages |-> 1]
    /\ protos = [L \in supportedLanguages |-> 1]
    /\ navigatorLanguage = "en"
    /\ url = "null"
    /\ Constructed
    /\ content \in
         {[field |-> "text", sink |-> k, value |-> v] : k \in Sinks, v \in TextValues}
           \cup {[field |-> "contribution", entry |-> e, value |-> c] :
                    e \in Entries, c \in Contributions}

RenderTextValue ==
    /\ content.field = "text" /\ ~fragment.done
    /\ fragment' = RenderText(content.sink, content.value)
    /\ UNCHANGED <<content, world, loader, page, lightbox, navHist, drawer, viewer>>

RenderContribution ==
    /\ content.field = "contribution" /\ ~fragment.done
    /\ fragment' = [done |-> TRUE, nodes |-> ContributionBlock(content.entry, content.value),
                    spill |-> <<>>]
    /\ UNCHANGED <<content, world, loader, page, lightbox, navHist, drawer, viewer>>

NextRender == RenderTextValue \/ RenderContribution

SpecRender == InitRender /\ [][NextRender]_vars

\* ------------------------------------------------------------------ claims
\* A step in which the loadData() call of slot l settles.
Settles(l) == Pending(loads[l]) /\ ~Pending(loads'[l])
NonePendingNext == \A m \in Slots : ~Pending(loads'[m])

\* C1 as stated: a loadData() call started with currentLanguage = 'ru' whose
\* 'ru' document fails while the 'en' document is available settles resolved,
\* with currentLanguage = 'en' and the 'en' document active.
C1_FallbackReachesDefault ==
    [][\A l \in Slots :
         (Settles(l) /\ loads[l].start = "ru" /\ net["ru"] # "ok" /\ net["en"] = "ok")
         => (loads'[l].st = "resolved" /\ currentLanguage' = "en" /\ data' = "en")]_vars

\* C1 amended: the same, for a call that no other loadData() call overlaps and
\* whose request for the social document neither rejects nor has a malformed body.
C1_FallbackReachesDefaultAlone ==
    [][\A l \in Slots :
         (Settles(l) /\ loads[l].start = "ru" /\ ~loads[l].overlap
            /\ net["ru"] # "ok" /\ net["en"] = "ok" /\ net["social"] \in {"ok", "http"})
         => (loads'[l].st = "resolved" /\ currentLanguage' = "en" /\ data' = "en")]_vars

C1_Witness ==
    \E l \in Slots :
        /\ loads[l].st = "resolved" /\ loads[l].start = "ru" /\ loads[l].file = "en"
        /\ ~loads[l].overlap /\ loads[l].caller = "toggle"
        /\ net["ru"] # "ok" /\ net["en"] = "ok"
        /\ currentLanguage = "en" /\ data = "en"

\* C2: when the last attempt of init()'s loadData() is for 'en' and fails, the
\* call rejects, initializeUI() has not run (nothing is rendered, no listener is
\* attached: phase is not "ready") and the loading indicator is cleared.
LoadFails(file, soc) ==
    net[file] # "ok" \/ (soc /\ net["social"] \in {"reject", "badjson"})
C2_InitAbortsOnDefaultFailure ==
    \A l \in Slots :
        (loads[l].caller = "init" /\ loads[l].st \in {"resolved", "rejected"}
           /\ loads[l].file = "en" /\ LoadFails("en", loads[l].soc))
        => (loads[l].st = "rejected" /\ phase = "failed" /\ dom = NoDom
              /\ navLabels = "null" /\ ~loading)

C2_Witness ==
    /\ phase = "failed" /\ loads[1].st = "rejected" /\ loads[1].start = "ru"
    /\ loads[1].file = "en" /\ data = "en" /\ ~loading

C4_LanguageSupported == currentLanguage \in {"en", "ru"}

C4_Witness ==
    \E l \in Slots :
        /\ loads[l].caller = "toggle" /\ loads[l].st = "rejected" /\ loads[l].reqs = 2
        /\ currentLanguage = "en"

\* C5 as stated: when a load for locale L resolves and no load is pending any
\* more, the active document is L's and currentLanguage is L, toggles issued
\* during a pending load included.
C5_ResolvedLoadIsActive ==
    [][\A l \in Slots :
         (Settles(l) /\ loads'[l].st = "resolved" /\ NonePendingNext)
         => (data' = loads[l].file /\ currentLanguage' = loads[l].file)]_vars

\* C6 as stated: whenever there is an active document, projectImages has as
\* many entries as the document's projects array.
C6_ImagesMatchDocument ==
    data # "null" => Len(projectImages) = docs[data]

\* C7: on a list of n > 0 images the index stays in [0, n) under every sequence
\* of previousImage()/nextImage(), and n consecutive nextImage() calls lead
\* back to the index they started from.
C7_Wraparound ==
    /\ currentImageIndex \in 0..(Len(projectImages) - 1)
    /\ navCount = Len(projectImages) => currentImageIndex = navStart

C7_Witness ==
    /\ Len(projectImages) >= 3
    /\ navCount = Len(projectImages)
    /\ navStart = 1 /\ currentImageIndex = 1

\* C8 as stated: the lightbox is Open only while the image list is non-empty,
\* so no previousImage()/nextImage() computes an index modulo 0.
C8_OpenOnlyNonEmpty ==
    (modalActive => Len(projectImages) > 0) /\ currentImageIndex # NaN

\* C9 as stated: whenever the lightbox is Open, currentImageIndex is an index
\* of projectImages.
C9_OpenIndexInRange ==
    modalActive => currentImageIndex \in 0..(Len(projectImages) - 1)

\* C10 as stated: closeImageModal() scrolls the page to the offset it had when
\* the lightbox went from Closed to Open.
C10_CloseRestoresOpenOffset ==
    [][(modalActive /\ ~modalActive') => pageYOffset' = offsetAtOpen]_vars

\* C11 as stated: in the whole session data/social.json is requested at most once.
C11_SocialRequestedOnce == socialRequests <= 1

\* C11 amended: once the social document is cached, no step requests
\* data/social.json again, and no load attempt started from then on (initial
\* load, fallback retry or language switch) carries a social request.
C11_NoRequestOnceCached ==
    [][socialData =>
         /\ socialRequests' = socialRequests
         /\ \A l \in Slots :
               (loads'[l].st = "fetch" /\ loads'[l] # loads[l] /\ loads[l].reqs < MaxRequests
                  /\ (loads[l].st # "fetch" \/ loads'[l].reqs # loads[l].reqs))
               => ~loads'[l].soc]_vars

C11_Witness ==
    /\ socialData /\ socialRequests = 1
    /\ \E l \in Slots :
         /\ loads[l].caller = "toggle" /\ loads[l].st = "resolved"
         /\ loads[l].reqs = 2 /\ ~loads[l].soc

\* C12 as stated: after every load that resolves, socialData is non-null.
C12_ResolvedHasSocial ==
    [][\A l \in Slots :
         (Settles(l) /\ loads'[l].st = "resolved") => socialData']_vars

\* C12 amended: a load whose request for data/social.json rejects or has a body
\* that is not JSON never resolves; a load resolves with socialData still null
\* only when data/social.json answered non-2xx.
C12_SocialFailurePolicy ==
    [][\A l \in Slots :
         Settles(l) =>
           /\ (loads[l].soc /\ net["social"] \in {"reject", "badjson"})
                => loads'[l].st = "rejected"
           /\ loads'[l].st = "resolved" => (socialData' \/ net["social"] = "http")]_vars

C12_Witness ==
    /\ ~socialData /\ net["social"] = "http" /\ phase = "ready"
    /\ \E l \in Slots :
         loads[l].caller = "toggle" /\ loads[l].st = "resolved" /\ loads[l].soc

\* C13 as stated: no loadData() call issues more than two requests for a
\* portfolio document, language toggles during the load included.
C13_AtMostTwoRequests == \A l \in Slots : loads[l].reqs <= 2

C20_SwipeThreshold ==
    LET n == Len(projectImages)
        dx == lastEvent.dx
        dy == lastEvent.dy
    IN  (lastEvent.kind = "touch" /\ before.modalActive)
        => /\ modalActive
           /\ currentImageIndex =
                 (IF dx > 50 /\ Abs(dx) > Abs(dy) THEN (before.index - 1 + n) % n
                  ELSE IF dx < 0 - 50 /\ Abs(dx) > Abs(dy) THEN (before.index + 1) % n
                  ELSE before.index)

C20_Witness ==
    /\ lastEvent.kind = "touch" /\ lastEvent.dx = 0 - 51 /\ lastEvent.dy = 50
    /\ before.modalActive /\ Len(projectImages) >= 3
    /\ before.index = Len(projectImages) - 1 /\ currentImageIndex = 0

\* C15: an omitted contribution or an empty list renders no block, a non-empty
\* string renders one paragraph with that string, a non-empty list renders one
\* list item per element, in the order of the list.
C15_ContributionBlock ==
    (fragment.done /\ content.field = "contribution")
    => LET c == content.value
           out == fragment.nodes
       IN  /\ (c.kind = "omitted" \/ (c.kind = "list" /\ c.items = <<>>)) => out = <<>>
           /\ (c.kind = "string" /\ c.text # "")
                => /\ Len(out) = 1
                   /\ out[1].body.el = "p" /\ out[1].body.text = c.text
           /\ (c.kind = "list" /\ c.items # <<>>)
                => /\ Len(out) = 1
                   /\ out[1].body.el = "ul"
                   /\ Len(out[1].body.items) = Len(c.items)
                   /\ \A i \in 1..Len(c.items) : out[1].body.items[i] = c.items[i]

C15_Witness ==
    /\ fragment.done /\ content.field = "contribution" /\ content.entry = "jam"
    /\ content.value.kind = "list" /\ content.value.items = <<"y", "x">>
    /\ Len(fragment.nodes) = 1 /\ fragment.nodes[1].body.items = <<"y", "x">>

\* C16 as stated: every text value of the content documents reaches the page
\* as literal text, whatever characters it contains; about.content alone is
\* markup: its text with every newline turned into a line break.
C16_TextIsLiteral ==
    (fragment.done /\ content.field = "text")
    => IF content.sink = "about"
       THEN fragment.nodes =
              [i \in 1..Len(content.value) |->
                 IF content.value[i] = "\n" THEN Element(<<"b", "r">>)
                 ELSE TextNode(content.value[i])]
       ELSE fragment.nodes = TextNodes(content.value) /\ fragment.spill = <<>>

\* C21: with the lightbox Closed, under drawer events the body's overflow is
\* 'hidden' exactly when the drawer is open (and the toggle button shows it).
C21_LockIffDrawerOpen ==
    [](/\ (body.overflow = "hidden") <=> mobileNavActive
       /\ menuToggleActive <=> mobileNavActive
       /\ ~modalActive)

\* C21: every closing action (overlay, close button, link, Escape on the open
\* drawer) leaves the drawer closed and the lock cleared.
C21_DrawerLock ==
    /\ C21_LockIffDrawerOpen
    /\ [][(mobileNavActive
             /\ (NavOverlayClick \/ NavCloseClick \/ NavLinkClick \/ keydown("Escape")))
          => (~mobileNavActive' /\ body'.overflow = "")]_vars

\* A drawer link was clicked in the open drawer, which closed it.
C21_Witness ==
    /\ ~mobileNavActive /\ ~menuToggleActive /\ body.overflow = ""
    /\ Len(navTimers) = 1 /\ linkClicks = 1

\* The clicks on a link with an existing target whose delayed scroll is due.
PendingScrolls == Cardinality({i \in 1..Len(navTimers) : navTimers[i].link.exists})

\* C22: a click on a drawer link closes the drawer and scrolls to an existing
\* target exactly once, only after the delay: every scroll made so far is that of
\* a click whose timer and frame have run, and the drawer is closed while a
\* click's scroll is still due.
C22_ScrollOncePerClickAfterDelay ==
    linkScrolls + PendingScrolls = linkClicks

\* C23: when a load started by toggleLanguage() settles, resolved (directly or
\* by fallback) or rejected, the section titles and the drawer labels on the
\* page are both in the language currentLanguage.
C23_TitlesAndLabelsFollowLanguage ==
    [][\A l \in Slots :
         (Settles(l) /\ loads[l].caller = "toggle")
         => (dom'.lang = currentLanguage' /\ navLabels' = currentLanguage')]_vars

\* C25: when a load started by toggleLanguage() settles, the lang parameter of
\* the URL is currentLanguage.
C25_UrlFollowsLanguage ==
    [][\A l \in Slots :
         (Settles(l) /\ loads[l].caller = "toggle") => url' = currentLanguage']_vars

\* C26: the loading indicator is active exactly while a load is pending.
C26_IndicatorIffPending ==
    phase # "new" => (loading <=> AnyPending)

\* C24: while the lightbox is Open and no image load is in flight, the modal
\* shows the full image of projectImages[currentImageIndex].
C24_ShownImageIsCurrent ==
    (modalActive /\ imageLoads = {}) => modalSrc = projectImages[currentImageIndex + 1]

\* C27: whenever the lightbox is Open the scroll lock of openImageModal() is in
\* force, whatever drawer events have happened since it opened.
C27_LockHeldWhileOpen ==
    modalActive => (body.overflow = "hidden" /\ body.position = "fixed")

====
